---- MODULE Spec2Model ----
(***************************************************************************)
(* The valuation pipeline of src/xgboost_model.py (class                   *)
(* HomeValuationModel) as a state machine: the in-memory registries        *)
(* (models, preprocessors, feature_importances), the files of the model    *)
(* store (<type>_model.json, <type>_feature_importance.json,               *)
(* <type>_metrics.json, last_training.json), the trainer's position inside *)
(* train_model / train_all_models / retrain_models and a predictor's       *)
(* position inside predict / load_model / predict_with_confidence /        *)
(* evaluate_model / explain_valuation.                                     *)
(*                                                                         *)
(* An artifact is identified by the training call that produced it and by  *)
(* the property type it was trained for.  A table is described by its      *)
(* column set and by the number of rows of each property type.             *)
(***************************************************************************)
EXTENDS Integers, FiniteSets, Sequences, TLC

VARIABLES
    models,               \* self.models: type -> booster resident in memory
    preprocessors,        \* self.preprocessors: type -> ColumnTransformer
    feature_importances,  \* self.feature_importances: type -> importance map
    modelFile,            \* <model_dir>/<type>_model.json
    impFile,              \* <model_dir>/<type>_feature_importance.json
    metricsFile,          \* <model_dir>/<type>_metrics.json
    history,              \* <model_dir>/last_training.json ("at", "policy":
                          \* when the run that wrote it read the clock and
                          \* its schedule; history of the run, not in the file)
    clock,                \* wall clock, in half days
    ncalls,               \* number of training calls started so far
    op,                   \* the trainer's top-level call
    pc,                   \* the trainer's position
    tbl,                  \* the table handed to the top-level call
    pdata,                \* property_data inside train_model
    ptype,                \* property_type inside train_model
    idx,                  \* loop position of train_all_models
    results,              \* results dict of train_all_models
    started,              \* current_date read by retrain_models
    outcome,              \* how the trainer's last top-level call ended
    pre,                  \* the artifacts as they were when that call began
    rpc,                  \* the predictor's position
    rtype,                \* property_type passed to predict
    rrec,                 \* columns of the record passed to predict
    routcome,             \* how the last predict ended
    rrows,                \* rows of the data passed to the predictor, by type
    rcall,                \* the predictor's top-level call
    rconf,                \* confidence_level, in percent
    rpreds,               \* predictions returned by self.predict
    rres,                 \* intervals and explanation computed by the call
    fx                    \* a direct call of engineer_features, of the
                          \* preprocessor or of the parameter set-up of
                          \* train_model: its input and its result

mem     == <<models, preprocessors, feature_importances>>
disk    == <<modelFile, impFile, metricsFile>>
frame   == <<op, pc, tbl, pdata, ptype, idx, results, started>>
rargs   == <<rtype, rrec, rrows, rcall, rconf, fx>>
reader  == <<rpc, rtype, rrec, routcome, rrows, rcall, rconf, rpreds, rres, fx>>
vars    == <<models, preprocessors, feature_importances, modelFile, impFile,
             metricsFile, history, clock, ncalls, op, pc, tbl, pdata, ptype,
             idx, results, started, outcome, pre, rpc, rtype, rrec, routcome,
             rrows, rcall, rconf, rpreds, rres, fx>>

---------------------------------------------------------------------------
(* Bounds of the model.                                                    *)

MaxCalls == 2      \* training calls (train_model, train_all_models, retrain_models)
MaxRetrains == 1   \* triggered retrain_models calls
MaxClock == 3      \* the clock stops after this many half days
MaxBatch == 2      \* rows in the data handed to predict_with_confidence
MaxFeatures == 11  \* features in an importance map

---------------------------------------------------------------------------
(* Property types (self.property_types, in list order).                    *)

property_types == <<"single_family", "condo", "townhouse", "multi_family">>

PropertyTypes == {property_types[i] : i \in 1..Len(property_types)}

(* Artifacts.  call = 0 is "absent"; ptype "truncated" is a file that has  *)
(* been opened for writing and not yet written.                            *)
NoArt == [call |-> 0, ptype |-> "none"]

Art(k, T) == [call |-> k, ptype |-> T]

Truncated == [call |-> 0, ptype |-> "truncated"]

NoPrep == [call |-> 0, ptype |-> "none", fitted |-> FALSE, cols |-> {}]

Prep(k, T, f, c) == [call |-> k, ptype |-> T, fitted |-> f, cols |-> c]

NoTable == [cols |-> {}, rows |-> [T \in PropertyTypes |-> 0]]

NoOutcome == [op |-> "none", arg |-> "none", kind |-> "none", val |-> "none"]

NoROutcome == [kind |-> "none", val |-> "none", model |-> NoArt, prep |-> NoPrep]

NoHistory == [date |-> 0, property_types |-> [T \in {} |-> 0], state |-> "absent",
              at |-> 0, policy |-> "none"]

NoResults == [T \in PropertyTypes |-> "none"]

NoCall == [call |-> "none"]

(* <type>_metrics.json: absent, opened for writing and still empty, or a   *)
(* JSON object with the given keys; rmse is the number stored under the    *)
(* RMSE key it has.                                                        *)
NoMetrics == [state |-> "absent", keys |-> {}, rmse |-> 0]

TruncatedMetrics == [state |-> "truncated", keys |-> {}, rmse |-> 0]

(* The intervals and the explanation a call has computed so far.           *)
NoRes == [source |-> "none", rmse |-> 0, scale |-> 0,
          ci_lower |-> <<>>, ci_upper |-> <<>>, pi_lower |-> <<>>, pi_upper |-> <<>>,
          explained |-> FALSE, drivers |-> 0, top |-> 0, total |-> 0]

RECURSIVE SumRows(_, _)
SumRows(rows, S) ==
    IF S = {} THEN 0
    ELSE LET T == CHOOSE x \in S : TRUE IN rows[T] + SumRows(rows, S \ {T})

(* len(table) *)
NumRows(t) == SumRows(t.rows, PropertyTypes)

---------------------------------------------------------------------------
(* Pure helpers.                                                           *)

(* data[data['property_type'] == T]: the rows of type T.                   *)
FilterRows(t, T) ==
    [t EXCEPT !.rows = [U \in PropertyTypes |-> IF U = T THEN t.rows[T] ELSE 0]]

(* engineer_features, one operator per rule.  A table is seen as cols, the *)
(* set of its columns, and zeros, the columns that hold a 0 in some row;   *)
(* each operator yields the columns its rule adds.                         *)

(* Lines 179-183: price per square foot, from sale_price, else list_price. *)
PricePerSqft(cols, zeros) ==
    IF "square_feet" \in cols /\ "square_feet" \notin zeros
       /\ ("sale_price" \in cols \/ "list_price" \in cols)
    THEN {"price_per_sqft"} ELSE {}

(* Lines 186-188. *)
PropertyAge(cols) == IF "year_built" \in cols THEN {"property_age"} ELSE {}

(* Lines 191-197: year_built only refines the value. *)
YearsSinceRenovation(cols) ==
    IF "renovation_year" \in cols THEN {"years_since_renovation"} ELSE {}

(* A rule that adds total_rooms when either count is present.              *)
TotalRoomsEither(cols) ==
    IF "bedrooms" \in cols \/ "bathrooms" \in cols THEN {"total_rooms"} ELSE {}

(* Lines 200-201. *)
TotalRooms(cols) ==
    IF "bedrooms" \in cols /\ "bathrooms" \in cols THEN {"total_rooms"} ELSE {}

(* Lines 204-205. *)
BedBathRatio(cols, zeros) ==
    IF "bedrooms" \in cols /\ "bathrooms" \in cols /\ "bathrooms" \notin zeros
    THEN {"bed_bath_ratio"} ELSE {}

(* Lines 208-209. *)
LivingAreaRatio(cols, zeros) ==
    IF "square_feet" \in cols /\ "bedrooms" \in cols /\ "bedrooms" \notin zeros
    THEN {"living_area_ratio"} ELSE {}

(* Lines 212-213. *)
LotToHouseRatio(cols, zeros) ==
    IF "lot_size" \in cols /\ "square_feet" \in cols /\ "square_feet" \notin zeros
    THEN {"lot_to_house_ratio"} ELSE {}

(* Lines 216-224. *)
TemporalFeatures(cols) ==
    IF "sale_date" \in cols
    THEN {"month_of_year", "quarter", "year", "day_of_week", "is_weekend",
          "is_summer", "is_winter"}
    ELSE {}

(* Lines 227-234: nothing tests previous_sale_price before line 234        *)
(* divides by it.                                                          *)
PreviousSaleFeatures(cols) ==
    IF "previous_sale_date" \in cols /\ "previous_sale_price" \in cols
    THEN (IF "sale_date" \in cols THEN {"days_since_last_sale"} ELSE {})
         \cup (IF "sale_price" \in cols
               THEN {"price_change_since_last_sale", "price_change_pct"}
               ELSE {})
    ELSE {}

(* Lines 237-258. *)
LocationFeatures(cols) ==
    IF "latitude" \in cols /\ "longitude" \in cols
    THEN {"distance_to_strip", "distance_to_airport", "distance_to_downtown"}
    ELSE {}

(* Lines 261-275. *)
NeighborhoodQuality(cols) ==
    IF {"school_rating", "crime_score", "walkability_score"} \subseteq cols
    THEN {"neighborhood_quality"} ELSE {}

(* Lines 278-283. *)
EconomicIndicators(cols) ==
    IF "mortgage_rate_30yr" \in cols /\ "unemployment_rate" \in cols
    THEN {"affordability_index", "economic_health_index"} ELSE {}

(* Lines 286-293: log1p of the target and of the skewed features that are  *)
(* columns of df by now, price_per_sqft included when it was derived.      *)
LogTransforms(df) ==
    (IF "sale_price" \in df THEN {"log_sale_price"} ELSE {})
    \cup (IF "square_feet" \in df THEN {"log_square_feet"} ELSE {})
    \cup (IF "lot_size" \in df THEN {"log_lot_size"} ELSE {})
    \cup (IF "price_per_sqft" \in df THEN {"log_price_per_sqft"} ELSE {})

(* engineer_features (lines 156-298): the columns of the returned table.   *)
EngineeredColumns(cols, zeros) ==
    LET df == cols \cup PricePerSqft(cols, zeros) \cup PropertyAge(cols)
                   \cup YearsSinceRenovation(cols) \cup TotalRooms(cols)
                   \cup BedBathRatio(cols, zeros) \cup LivingAreaRatio(cols, zeros)
                   \cup LotToHouseRatio(cols, zeros) \cup TemporalFeatures(cols)
                   \cup PreviousSaleFeatures(cols) \cup LocationFeatures(cols)
                   \cup NeighborhoodQuality(cols) \cup EconomicIndicators(cols)
    IN df \cup LogTransforms(df)

(* The column each derived column is divided by (lines 181, 183, 205, 209, *)
(* 213, 234).                                                              *)
Denominator(f) ==
    CASE f = "price_per_sqft"     -> "square_feet"
      [] f = "bed_bath_ratio"     -> "bathrooms"
      [] f = "living_area_ratio"  -> "bedrooms"
      [] f = "lot_to_house_ratio" -> "square_feet"
      [] f = "price_change_pct"   -> "previous_sale_price"

DivisionFeatures == {"price_per_sqft", "bed_bath_ratio", "living_area_ratio",
                     "lot_to_house_ratio", "price_change_pct"}

(* The derived columns whose computation divides by a 0 in some row        *)
(* (pandas yields inf or NaN there and raises nothing).                    *)
ZeroDivisions(cols, zeros) ==
    {f \in DivisionFeatures \cap EngineeredColumns(cols, zeros) :
        Denominator(f) \in zeros}

(* engineer_features on a table in which no column holds a 0.              *)
engineer_features(cols) == EngineeredColumns(cols, {})

(* prepare_data: the numeric and categorical columns handed to the         *)
(* ColumnTransformer, the target-related columns removed.                  *)
FeatureColumns(cols) == cols \ {"sale_price", "log_sale_price"}

(* A formatting that yields the day before.                                *)
StrfDateDayBefore(c) == (c \div 2) - 1

(* strftime('%Y-%m-%d'): the calendar day of a clock value.                *)
StrfDate(c) == c \div 2

(* strptime(.., '%Y-%m-%d'): midnight of a calendar day.                   *)
StrpDate(d) == d * 2

(* (current_date - last_training_date).days                                *)
TimedeltaDays(now, then) == (now - then) \div 2

(* The schedule test with strict comparisons.                              *)
ShouldRetrainStrict(schedule, days) ==
    CASE schedule = "daily"         -> days > 1
      [] schedule = "weekly"        -> days > 7
      [] schedule = "monthly"       -> days > 30
      [] schedule = "quarterly"     -> days > 90
      [] schedule = "market_change" -> TRUE
      [] OTHER                      -> FALSE

(* The schedule test of retrain_models.                                    *)
ShouldRetrain(schedule, days) ==
    CASE schedule = "daily"         -> days >= 1
      [] schedule = "weekly"        -> days >= 7
      [] schedule = "monthly"       -> days >= 30
      [] schedule = "quarterly"     -> days >= 90
      [] schedule = "market_change" -> TRUE
      [] OTHER                      -> FALSE

(* results[pt].get('metrics', {}) for every pt in results: the number of   *)
(* the call whose metrics are stored, 0 for the empty dict.                *)
HistoryMetrics(res, k) ==
    [T \in {U \in PropertyTypes : res[U] # "none"} |->
        IF res[T] = "ok" THEN k ELSE 0]

Snapshot == <<models, preprocessors, feature_importances, modelFile, impFile, history,
              metricsFile>>

---------------------------------------------------------------------------
(* How a train_model call hands control back.                              *)

(* An exception leaves train_model; neither train_all_models nor           *)
(* retrain_models catches it, so the top-level call ends with it.          *)
Raise(err) ==
    /\ outcome' = [op |-> op, arg |-> ptype, kind |-> "raised", val |-> err]
    /\ op' = "none"
    /\ pc' = "idle"
    /\ tbl' = NoTable
    /\ pdata' = NoTable
    /\ ptype' = "none"
    /\ idx' = 0
    /\ started' = 0
    /\ UNCHANGED results

(* train_model returns res ("ok": the results dict, "error": the error     *)
(* dict) to its caller.                                                    *)
Return(res) ==
    /\ results' = [results EXCEPT ![ptype] = res]
    /\ pdata' = NoTable
    /\ ptype' = "none"
    /\ IF op = "train_model"
       THEN /\ outcome' = [op |-> op, arg |-> ptype, kind |-> "returned", val |-> res]
            /\ op' = "none"
            /\ pc' = "idle"
            /\ tbl' = NoTable
            /\ UNCHANGED <<idx, started>>
       ELSE /\ pc' = "ta_loop"
            /\ idx' = idx + 1
            /\ UNCHANGED <<op, tbl, started, outcome>>

Go(next) ==
    /\ pc' = next
    /\ UNCHANGED <<op, tbl, pdata, ptype, idx, results, started, outcome>>

---------------------------------------------------------------------------
(* train_model, one action per stage.  A stage that calls into pandas,     *)
(* scikit-learn, xgboost, matplotlib or the file system may raise; an      *)
(* exception is an outcome of the stage.                                   *)

(* The record of the predictor's last call is dropped when a training call *)
(* begins while the predictor is idle.                                     *)
ForgetPredict ==
    IF rpc = "idle"
    THEN /\ rtype' = "none"
         /\ rrec' = {}
         /\ routcome' = NoROutcome
         /\ rrows' = NoTable.rows
         /\ rcall' = "none"
         /\ rconf' = 0
         /\ rpreds' = <<>>
         /\ rres' = NoRes
         /\ UNCHANGED fx
    ELSE UNCHANGED <<rargs, routcome, rpreds, rres>>

(* A caller starts train_model(data, property_type).                       *)
StartTrainModel(t, T) ==
    /\ pc = "idle"
    /\ ncalls < MaxCalls
    /\ ncalls' = ncalls + 1
    /\ op' = "train_model"
    /\ pc' = "tm_filter"
    /\ tbl' = t
    /\ pdata' = t
    /\ ptype' = T
    /\ idx' = 0
    /\ started' = 0
    /\ results' = NoResults
    /\ outcome' = NoOutcome
    /\ pre' = Snapshot
    /\ ForgetPredict
    /\ UNCHANGED <<mem, disk, history, clock, rpc>>

(* Lines 339-346: filter the rows of the type; no row left returns the     *)
(* error dict.                                                             *)
TMFilter ==
    /\ pc = "tm_filter"
    /\ IF "property_type" \in pdata.cols
       THEN IF pdata.rows[ptype] = 0
            THEN Return("error")
            ELSE /\ pdata' = FilterRows(pdata, ptype)
                 /\ pc' = "tm_engineer"
                 /\ UNCHANGED <<op, tbl, ptype, idx, results, started, outcome>>
       ELSE Go("tm_engineer")
    /\ UNCHANGED <<mem, disk, history, clock, ncalls, pre, reader>>

(* Line 349: engineer_features(property_data).                             *)
TMEngineer ==
    /\ pc = "tm_engineer"
    /\ \/ /\ pdata' = [pdata EXCEPT !.cols = engineer_features(pdata.cols)]
          /\ pc' = "tm_prepare"
          /\ UNCHANGED <<op, tbl, ptype, idx, results, started, outcome>>
       \/ Raise("engineer_features")
    /\ UNCHANGED <<mem, disk, history, clock, ncalls, pre, reader>>

(* Line 352, prepare_data lines 105-146: the label check, then the new     *)
(* (unfitted) ColumnTransformer is stored under the type.                  *)
TMPrepare ==
    /\ pc = "tm_prepare"
    /\ IF "sale_price" \notin pdata.cols
       THEN /\ Raise("ValueError: sale_price")
            /\ UNCHANGED preprocessors
       ELSE /\ preprocessors' = [preprocessors EXCEPT ![ptype] =
                   Prep(ncalls, ptype, FALSE,
                        FeatureColumns(pdata.cols \ {"sale_price"}))]
            /\ Go("tm_fit")
    /\ UNCHANGED <<models, feature_importances, disk, history, clock, ncalls,
                   pre, reader>>

(* prepare_data line 150: fit_transform on the stored preprocessor.        *)
TMFit ==
    /\ pc = "tm_fit"
    /\ \/ /\ preprocessors' = [preprocessors EXCEPT ![ptype].fitted = TRUE]
          /\ Go("tm_split")
       \/ /\ Raise("fit_transform")
          /\ UNCHANGED preprocessors
    /\ UNCHANGED <<models, feature_importances, disk, history, clock, ncalls,
                   pre, reader>>

(* Line 355: train_test_split(test_size=0.2) raises ValueError when the    *)
(* train part would be empty, that is with fewer than two rows.            *)
TMSplit ==
    /\ pc = "tm_split"
    /\ IF NumRows(pdata) < 2
       THEN Raise("ValueError: train_test_split")
       ELSE Go("tm_boost")
    /\ UNCHANGED <<mem, disk, history, clock, ncalls, pre, reader>>

(* Lines 361-397: hyperparameters and xgb.train.                           *)
TMBoost ==
    /\ pc = "tm_boost"
    /\ \/ Go("tm_save")
       \/ Raise("xgb.train")
    /\ UNCHANGED <<mem, disk, history, clock, ncalls, pre, reader>>

(* Lines 400-401: bst.save_model(model_path).                              *)
TMSave ==
    /\ pc = "tm_save"
    /\ \/ /\ modelFile' = [modelFile EXCEPT ![ptype] = Art(ncalls, ptype)]
          /\ Go("tm_setmodel")
       \/ /\ Raise("save_model")
          /\ UNCHANGED modelFile
    /\ UNCHANGED <<mem, impFile, metricsFile, history, clock, ncalls, pre, reader>>

(* The booster registered under the default type's key.                    *)
TMSetModelDefaultKey ==
    /\ pc = "tm_setmodel"
    /\ models' = [models EXCEPT !["single_family"] = Art(ncalls, ptype)]
    /\ Go("tm_importance")
    /\ UNCHANGED <<preprocessors, feature_importances, disk, history, clock,
                   ncalls, pre, reader>>

(* Line 404: self.models[property_type] = bst.                             *)
TMSetModel ==
    /\ pc = "tm_setmodel"
    /\ models' = [models EXCEPT ![ptype] = Art(ncalls, ptype)]
    /\ Go("tm_importance")
    /\ UNCHANGED <<preprocessors, feature_importances, disk, history, clock,
                   ncalls, pre, reader>>

(* Lines 407-408: self.feature_importances[property_type] = importance.    *)
TMImportance ==
    /\ pc = "tm_importance"
    /\ feature_importances' =
           [feature_importances EXCEPT ![ptype] = Art(ncalls, ptype)]
    /\ Go("tm_open_importance")
    /\ UNCHANGED <<models, preprocessors, disk, history, clock, ncalls, pre,
                   reader>>

(* Line 412: open(importance_path, 'w') truncates the file.                *)
TMOpenImportance ==
    /\ pc = "tm_open_importance"
    /\ impFile' = [impFile EXCEPT ![ptype] = Truncated]
    /\ Go("tm_dump_importance")
    /\ UNCHANGED <<mem, modelFile, metricsFile, history, clock, ncalls, pre, reader>>

(* Line 413: json.dump(importance, f).                                     *)
TMDumpImportance ==
    /\ pc = "tm_dump_importance"
    /\ \/ /\ impFile' = [impFile EXCEPT ![ptype] = Art(ncalls, ptype)]
          /\ Go("tm_evaluate")
       \/ /\ Raise("json.dump")
          /\ UNCHANGED impFile
    /\ UNCHANGED <<mem, modelFile, metricsFile, history, clock, ncalls, pre, reader>>

(* Lines 415-461: metrics, evaluation plots, the results dict.             *)
TMEvaluate ==
    /\ pc = "tm_evaluate"
    /\ \/ Return("ok")
       \/ Raise("evaluate")
    /\ UNCHANGED <<mem, disk, history, clock, ncalls, pre, reader>>

---------------------------------------------------------------------------
(* train_all_models.                                                       *)

StartTrainAll(t) ==
    /\ pc = "idle"
    /\ ncalls < MaxCalls
    /\ ncalls' = ncalls + 1
    /\ op' = "train_all_models"
    /\ pc' = "ta_loop"
    /\ tbl' = t
    /\ pdata' = NoTable
    /\ ptype' = "none"
    /\ idx' = 1
    /\ started' = 0
    /\ results' = NoResults
    /\ outcome' = NoOutcome
    /\ pre' = Snapshot
    /\ ForgetPredict
    /\ UNCHANGED <<mem, disk, history, clock, rpc>>

(* The loop with break in place of continue.                               *)
TALoopBreak ==
    /\ pc = "ta_loop"
    /\ idx <= Len(property_types)
    /\ LET T == property_types[idx] IN
       IF "property_type" \in tbl.cols /\ tbl.rows[T] = 0
       THEN /\ results' = [results EXCEPT ![T] = "error"]
            /\ idx' = Len(property_types) + 1
            /\ UNCHANGED <<op, pc, tbl, pdata, ptype, started, outcome>>
       ELSE /\ pdata' = IF "property_type" \in tbl.cols
                        THEN FilterRows(tbl, T) ELSE tbl
            /\ ptype' = T
            /\ pc' = "tm_filter"
            /\ UNCHANGED <<op, tbl, idx, results, started, outcome>>
    /\ UNCHANGED <<mem, disk, history, clock, ncalls, pre, reader>>

(* Lines 873-888, one iteration: a type without rows gets the error dict   *)
(* and the loop continues; otherwise train_model is called on its rows.    *)
TALoop ==
    /\ pc = "ta_loop"
    /\ idx <= Len(property_types)
    /\ LET T == property_types[idx] IN
       IF "property_type" \in tbl.cols /\ tbl.rows[T] = 0
       THEN /\ results' = [results EXCEPT ![T] = "error"]
            /\ idx' = idx + 1
            /\ UNCHANGED <<op, pc, tbl, pdata, ptype, started, outcome>>
       ELSE /\ pdata' = IF "property_type" \in tbl.cols
                        THEN FilterRows(tbl, T) ELSE tbl
            /\ ptype' = T
            /\ pc' = "tm_filter"
            /\ UNCHANGED <<op, tbl, idx, results, started, outcome>>
    /\ UNCHANGED <<mem, disk, history, clock, ncalls, pre, reader>>

(* Line 890: return results (to the caller, or to retrain_models).         *)
TAReturn ==
    /\ pc = "ta_loop"
    /\ idx > Len(property_types)
    /\ IF op = "train_all_models"
       THEN /\ outcome' = [op |-> op, arg |-> "none", kind |-> "returned",
                           val |-> "results"]
            /\ op' = "none"
            /\ pc' = "idle"
            /\ tbl' = NoTable
            /\ idx' = 0
            /\ UNCHANGED <<pdata, ptype, results, started>>
       ELSE Go("rt_open")
    /\ UNCHANGED <<mem, disk, history, clock, ncalls, pre, reader>>

---------------------------------------------------------------------------
(* retrain_models.                                                         *)

(* A no-op path that stamps last_training.json with the current date.      *)
RetrainNotNeededStamp(schedule) ==
    /\ outcome' = [op |-> "retrain_models", arg |-> schedule,
                   kind |-> "returned", val |-> "Retraining not needed"]
    /\ pre' = Snapshot
    /\ history' = [history EXCEPT !.date = StrfDate(clock)]
    /\ UNCHANGED <<mem, disk, clock, ncalls, frame, reader>>

(* Lines 937-939: the no-op path.                                          *)
RetrainNotNeeded(schedule) ==
    /\ outcome' = [op |-> "retrain_models", arg |-> schedule,
                   kind |-> "returned", val |-> "Retraining not needed"]
    /\ pre' = Snapshot
    /\ UNCHANGED <<mem, disk, history, clock, ncalls, frame, reader>>

(* Lines 941-943: the retraining begins.  Retrainings over a table that   *)
(* has rows are bounded by MaxRetrains, those over a table without any row *)
(* (every type returns the error dict at once) by MaxCalls.                *)
RetrainTriggered(t, schedule) ==
    /\ \/ ncalls < MaxRetrains
       \/ (NumRows(t) = 0 /\ ncalls < MaxCalls)
    /\ ncalls' = ncalls + 1
    /\ op' = "retrain_models"
    /\ pc' = "ta_loop"
    /\ tbl' = t
    /\ pdata' = NoTable
    /\ ptype' = "none"
    /\ idx' = 1
    /\ started' = clock
    /\ results' = NoResults
    /\ outcome' = [op |-> "retrain_models", arg |-> schedule,
                   kind |-> "started", val |-> "Retraining models..."]
    /\ pre' = Snapshot
    /\ ForgetPredict
    /\ UNCHANGED <<mem, disk, history, clock, rpc>>

(* Lines 903-939: read the clock and last_training.json, decide.  The      *)
(* default record of lines 913-916 uses timedelta, a name the module does  *)
(* not import (line 21), so a missing file ends the call with NameError;   *)
(* a file left empty by an interrupted write makes json.load raise.        *)
StartRetrain(t, schedule) ==
    /\ pc = "idle"
    /\ CASE history.state = "absent" ->
              /\ outcome' = [op |-> "retrain_models", arg |-> schedule,
                             kind |-> "raised", val |-> "NameError: timedelta"]
              /\ pre' = Snapshot
              /\ UNCHANGED <<mem, disk, history, clock, ncalls, frame, reader>>
         [] history.state = "truncated" ->
              /\ outcome' = [op |-> "retrain_models", arg |-> schedule,
                             kind |-> "raised", val |-> "JSONDecodeError"]
              /\ pre' = Snapshot
              /\ UNCHANGED <<mem, disk, history, clock, ncalls, frame, reader>>
         [] OTHER ->
              IF ShouldRetrain(schedule,
                               TimedeltaDays(clock, StrpDate(history.date)))
              THEN RetrainTriggered(t, schedule)
              ELSE RetrainNotNeeded(schedule)

(* Line 951: open(last_training_path, 'w') truncates the file.             *)
RTOpen ==
    /\ pc = "rt_open"
    /\ history' = [date |-> 0, property_types |-> [T \in {} |-> 0],
                   state |-> "truncated", at |-> 0, policy |-> "none"]
    /\ Go("rt_dump")
    /\ UNCHANGED <<mem, disk, clock, ncalls, pre, reader>>

(* Lines 946-957: json.dump of the new record, then the result.            *)
RTDump ==
    /\ pc = "rt_dump"
    /\ \/ /\ history' = [date |-> StrfDate(started),
                         property_types |-> HistoryMetrics(results, ncalls),
                         state |-> "written", at |-> started,
                         policy |-> outcome.arg]
          /\ outcome' = [op |-> op, arg |-> "none", kind |-> "returned",
                         val |-> "Models retrained"]
          /\ op' = "none"
          /\ pc' = "idle"
          /\ tbl' = NoTable
          /\ idx' = 0
          /\ started' = 0
          /\ UNCHANGED <<pdata, ptype, results>>
       \/ /\ Raise("json.dump")
          /\ UNCHANGED history
    /\ UNCHANGED <<mem, disk, clock, ncalls, pre, reader>>

(* Time passes.                                                            *)
Tick ==
    /\ clock < MaxClock
    /\ clock' = clock + 1
    /\ UNCHANGED <<mem, disk, history, ncalls, frame, outcome, pre, reader>>

---------------------------------------------------------------------------
(* Values the libraries produce, drawn from small sets.                    *)

(* Values a booster may return for a row, and the batches of n rows.       *)
PredValues == {-100, 10, 1000}

Batches(n) == [1..n -> PredValues]

(* confidence_level arguments, in percent.                                 *)
ConfLevels == {50, 90, 95, 99}

(* Values of the RMSE evaluate_model computes.                             *)
RmseValues == {0, 50}

(* Importance maps: n features with equal or with increasing gains.        *)
GainMaps ==
    {[i \in 1..n |-> IF inc THEN i ELSE 3] : n \in 0..MaxFeatures, inc \in BOOLEAN}

---------------------------------------------------------------------------
(* Arithmetic of predict_with_confidence.  A z-score is held in            *)
(* hundredths; an amount of money is held in units of 1/(2000 n) for a     *)
(* batch of n predictions, so that 0.1 * mean, the z-scores and the 1.5    *)
(* factor all stay whole numbers.                                          *)

RECURSIVE SumSeq(_)
SumSeq(s) == IF s = <<>> THEN 0 ELSE Head(s) + SumSeq(Tail(s))

Max(a, b) == IF a >= b THEN a ELSE b

(* One unit of money in the scale of a batch.                              *)
Unit(preds) == 2000 * Len(preds)

(* stats.norm.ppf((1 + cl) / 2) for cl given in percent, in hundredths     *)
(* (0.674, 1.282, 1.645, 1.960, 2.576).                                    *)
ZScore(cl) ==
    CASE cl = 50 -> 67
      [] cl = 80 -> 128
      [] cl = 90 -> 164
      [] cl = 95 -> 196
      [] cl = 99 -> 258

(* 0.1 * np.mean(predictions)                                              *)
FallbackRmse(preds) == 200 * SumSeq(preds)

(* metrics.get(key, default)                                               *)
MetricsGet(m, key, default) ==
    IF key \in m.keys THEN m.rmse ELSE default

(* Lines 663-671: where the RMSE comes from ...                            *)
RmseSource(preds, m) ==
    IF m.state = "written" /\ "val_rmse" \in m.keys THEN "val_rmse" ELSE "fallback"

(* ... and its value, in the scale of the batch.                           *)
Rmse(preds, m) ==
    IF m.state = "written"
    THEN MetricsGet([m EXCEPT !.rmse = m.rmse * Unit(preds)], "val_rmse",
                    FallbackRmse(preds))
    ELSE FallbackRmse(preds)

(* Line 675: z_score * rmse.                                               *)
MarginOfError(cl, rmse) == (ZScore(cl) * rmse) \div 100

(* Lines 687-688: pi_z_score * rmse * 1.5 at the fixed 90% level.          *)
PiMargin(rmse) == (ZScore(90) * rmse * 3) \div 200

(* A lower bound computed with the sign of the margin flipped.             *)
CILowerFlipped(x, margin) == Max(x + margin, 0)

(* Lines 677 and 681: np.maximum(predictions - margin_of_error, 0).        *)
CILower(x, margin) == Max(x - margin, 0)

(* Line 678. *)
CIUpper(x, margin) == x + margin

(* A prediction-interval lower bound without the clamp.                    *)
PILowerUnclamped(x, margin) == x - margin

(* Lines 690 and 694: np.maximum(predictions - pi_margin, 0).              *)
PILower(x, margin) == Max(x - margin, 0)

(* Line 691. *)
PIUpper(x, margin) == x + margin

(* Lines 660-709: the result of predict_with_confidence.                   *)
Intervals(preds, m, cl) ==
    LET u    == Unit(preds)
        rmse == Rmse(preds, m)
        me   == MarginOfError(cl, rmse)
        pm   == PiMargin(rmse)
        n    == Len(preds)
    IN [NoRes EXCEPT
          !.source   = RmseSource(preds, m),
          !.rmse     = rmse,
          !.scale    = u,
          !.ci_lower = [i \in 1..n |-> CILower(preds[i] * u, me)],
          !.ci_upper = [i \in 1..n |-> CIUpper(preds[i] * u, me)],
          !.pi_lower = [i \in 1..n |-> PILower(preds[i] * u, pm)],
          !.pi_upper = [i \in 1..n |-> PIUpper(preds[i] * u, pm)]]

---------------------------------------------------------------------------
(* Arithmetic of explain_valuation.  An importance map is the sequence of  *)
(* the gains of the features f0, f1, ...: the booster is trained on a      *)
(* DMatrix built from the transformed matrix, which carries no column      *)
(* names, so get_score keys the gains by position.                         *)

FeatureNames ==
    <<"f0", "f1", "f2", "f3", "f4", "f5", "f6", "f7", "f8", "f9", "f10", "f11",
      "f12", "f13">>

TopN == 10

(* sorted(feature_importance.items(), key=gain, reverse=True)[:k]: the     *)
(* positions of the k largest gains, earlier positions first among equals. *)
RECURSIVE TopFeatures(_, _, _)
TopFeatures(g, S, k) ==
    IF k = 0 \/ S = {} THEN {}
    ELSE LET i == CHOOSE x \in S :
                     \A y \in S : g[x] > g[y] \/ (g[x] = g[y] /\ x <= y)
         IN {i} \cup TopFeatures(g, S \ {i}, k - 1)

RECURSIVE SumGains(_, _)
SumGains(g, S) ==
    IF S = {} THEN 0
    ELSE LET i == CHOOSE x \in S : TRUE IN g[i] + SumGains(g, S \ {i})

(* Lines 829-843: the top features that are columns of the engineered      *)
(* data.                                                                   *)
ValueDrivers(top, cols) == {i \in top : FeatureNames[i] \in cols}

(* Lines 822-843, as sums of gains: impact_percentage of a driver is its   *)
(* gain / total * 100.                                                     *)
Explanation(res, g, cols) ==
    LET top == TopFeatures(g, DOMAIN g, TopN)
    IN [res EXCEPT !.explained = TRUE,
                   !.drivers = SumGains(g, ValueDrivers(top, engineer_features(cols))),
                   !.top = SumGains(g, top),
                   !.total = SumGains(g, DOMAIN g)]

---------------------------------------------------------------------------
(* The predictor: predict, load_model, predict_with_confidence,            *)
(* evaluate_model, get_feature_importance and explain_valuation.           *)

RRaise(err) ==
    /\ routcome' = [kind |-> "raised", val |-> err, model |-> NoArt, prep |-> NoPrep]
    /\ rpc' = "idle"
    /\ UNCHANGED rargs

RReturn(val) ==
    /\ routcome' = [kind |-> "returned", val |-> val,
                    model |-> models[rtype], prep |-> preprocessors[rtype]]
    /\ rpc' = "idle"
    /\ UNCHANGED rargs

(* Where a call goes once the model of the type is resident.               *)
AfterLoad(call) == IF call = "evaluate_model" THEN "ev_filter" ELSE "pr_prepare"

(* Lines 625-627 (predict) and 723-724 (evaluate_model): the type is       *)
(* looked up in self.models and load_model is called when it is not        *)
(* resident.                                                               *)
EnterPredict(call, T, rec, rows, cl) ==
    /\ rpc = "idle"
    /\ rtype' = T
    /\ rrec' = rec
    /\ rrows' = rows
    /\ rcall' = call
    /\ rconf' = cl
    /\ routcome' = NoROutcome
    /\ rpreds' = <<>>
    /\ rres' = NoRes
    /\ rpc' = IF models[T] # NoArt THEN AfterLoad(call) ELSE "ld_model"
    /\ IF pc = "idle"
       THEN /\ outcome' = NoOutcome
            /\ results' = NoResults
            /\ pre' = Snapshot
       ELSE UNCHANGED <<outcome, results, pre>>
    /\ UNCHANGED <<mem, disk, history, clock, ncalls, op, pc, tbl, pdata,
                   ptype, idx, started, fx>>

(* predict(data, property_type) *)
StartPredict(T, rec, rows) == EnterPredict("predict", T, rec, rows, 0)

(* predict_with_confidence(data, property_type, confidence_level) *)
StartPredictWithConfidence(T, rec, rows, cl) ==
    EnterPredict("predict_with_confidence", T, rec, rows, cl)

(* explain_valuation(data, property_type): line 816 calls                  *)
(* predict_with_confidence with the default confidence level.              *)
StartExplain(T, rec, rows) == EnterPredict("explain_valuation", T, rec, rows, 95)

(* evaluate_model(data, property_type) *)
StartEvaluate(t, T) == EnterPredict("evaluate_model", T, t.cols, t.rows, 0)

(* A load_model that falls back to the default type's file when the type's *)
(* own file is missing.                                                    *)
ModelPathDefault(T) == IF modelFile[T] = NoArt THEN "single_family" ELSE T

(* The path load_model reads the booster of a type from.                   *)
ModelPath(T) == T

(* load_model lines 595-604, predict lines 628-629 and evaluate_model      *)
(* lines 725-726: no model file of the type raises "Model not found";      *)
(* otherwise the booster is loaded.                                        *)
LoadModel ==
    /\ rpc = "ld_model"
    /\ IF modelFile[ModelPath(rtype)] = NoArt
       THEN /\ RRaise("ValueError: Model not found")
            /\ UNCHANGED models
       ELSE /\ models' = [models EXCEPT ![rtype] = modelFile[ModelPath(rtype)]]
            /\ rpc' = "ld_importance"
            /\ UNCHANGED <<rargs, routcome>>
    /\ UNCHANGED <<preprocessors, feature_importances, disk, history, clock,
                   ncalls, frame, outcome, pre, rpreds, rres>>

(* load_model lines 606-612: the importances are loaded if their file      *)
(* exists; json.load raises on a file that was truncated and not written.  *)
LoadImportance ==
    /\ rpc = "ld_importance"
    /\ CASE impFile[rtype] = NoArt ->
              /\ rpc' = AfterLoad(rcall)
              /\ UNCHANGED <<feature_importances, rargs, routcome>>
         [] impFile[rtype] = Truncated ->
              /\ RRaise("JSONDecodeError")
              /\ UNCHANGED feature_importances
         [] OTHER ->
              /\ feature_importances' =
                     [feature_importances EXCEPT ![rtype] = impFile[rtype]]
              /\ rpc' = AfterLoad(rcall)
              /\ UNCHANGED <<rargs, routcome>>
    /\ UNCHANGED <<models, preprocessors, disk, history, clock, ncalls, frame,
                   outcome, pre, rpreds, rres>>

(* evaluate_model lines 729-742: the rows of the type are kept (none left  *)
(* returns the error dict), the label is required, the features are        *)
(* engineered; line 748 then calls predict on the engineered table.        *)
EvFilter ==
    /\ rpc = "ev_filter"
    /\ CASE "property_type" \in rrec /\ rrows[rtype] = 0 ->
              RReturn("error")
         [] "sale_price" \notin rrec ->
              RRaise("ValueError: sale_price")
         [] OTHER ->
              /\ rrows' = IF "property_type" \in rrec
                          THEN [U \in PropertyTypes |->
                                   IF U = rtype THEN rrows[U] ELSE 0]
                          ELSE rrows
              /\ rrec' = engineer_features(rrec)
              /\ rpc' = "pr_prepare"
              /\ UNCHANGED <<rtype, rcall, rconf, routcome, fx>>
    /\ UNCHANGED <<mem, disk, history, clock, ncalls, frame, outcome, pre,
                   rpreds, rres>>

(* A prepare_data that keeps and fits the transformer it builds for a     *)
(* type without a stored one.                                              *)
PredictPrepareStoring ==
    /\ rpc = "pr_prepare"
    /\ LET df == engineer_features(rrec)
           p  == preprocessors[rtype]
       IN CASE p = NoPrep        -> /\ preprocessors' = [preprocessors EXCEPT ![rtype] =
                                          Prep(0, rtype, TRUE, FeatureColumns(df))]
                                    /\ rpc' = "pr_infer"
                                    /\ UNCHANGED <<rargs, routcome>>
            [] ~p.fitted         -> RRaise("NotFittedError") /\ UNCHANGED preprocessors
            [] ~(p.cols \subseteq df) ->
                                    /\ RRaise("ValueError: columns are missing")
                                    /\ UNCHANGED preprocessors
            [] OTHER             -> /\ rpc' = "pr_infer"
                                    /\ UNCHANGED <<rargs, routcome, preprocessors>>
    /\ UNCHANGED <<models, feature_importances, disk, history, clock, ncalls,
                   frame, outcome, pre, rpreds, rres>>

(* predict lines 631-635 and prepare_data with train=False (lines 105-154):*)
(* no label check; a type without a stored preprocessor fails the lookup   *)
(* of line 153 with KeyError; a stored preprocessor that was never fitted  *)
(* raises NotFittedError; a fitted one requires every column it was fitted *)
(* on.                                                                     *)
PredictPrepare ==
    /\ rpc = "pr_prepare"
    /\ LET df == engineer_features(rrec)
           p  == preprocessors[rtype]
       IN CASE p = NoPrep        -> RRaise("KeyError")
            [] ~p.fitted         -> RRaise("NotFittedError")
            [] ~(p.cols \subseteq df) -> RRaise("ValueError: columns are missing")
            [] OTHER             -> /\ rpc' = "pr_infer"
                                    /\ UNCHANGED <<rargs, routcome>>
    /\ UNCHANGED <<mem, disk, history, clock, ncalls, frame, outcome, pre,
                   rpreds, rres>>

(* predict lines 637-643: inference with self.models[property_type]; the  *)
(* values of the predictions matter to the callers that compute with them. *)
PredictInfer ==
    /\ rpc = "pr_infer"
    /\ CASE rcall = "predict" ->
              /\ RReturn("predictions")
              /\ UNCHANGED rpreds
         [] rcall = "evaluate_model" ->
              /\ rpc' = "ev_metrics"
              /\ UNCHANGED <<rargs, routcome, rpreds>>
         [] OTHER ->
              /\ \E ps \in Batches(NumRows([rows |-> rrows])) : rpreds' = ps
              /\ rpc' = "ci_metrics"
              /\ UNCHANGED <<rargs, routcome>>
    /\ UNCHANGED <<mem, disk, history, clock, ncalls, frame, outcome, pre, rres>>

(* predict_with_confidence lines 660-709: the metrics file is read if it   *)
(* exists (json.load raises on a file that was truncated and not written)  *)
(* and the intervals are computed.                                         *)
ComputeIntervals ==
    /\ rpc = "ci_metrics"
    /\ IF metricsFile[rtype].state = "truncated"
       THEN /\ RRaise("JSONDecodeError")
            /\ UNCHANGED rres
       ELSE /\ rres' = Intervals(rpreds, metricsFile[rtype], rconf)
            /\ IF rcall = "explain_valuation"
               THEN /\ rpc' = "ex_importance"
                    /\ UNCHANGED <<rargs, routcome>>
               ELSE RReturn("intervals")
    /\ UNCHANGED <<mem, disk, history, clock, ncalls, frame, outcome, pre, rpreds>>

(* evaluate_model lines 750-777: the metrics and the plots, then           *)
(* open(metrics_path, 'w') truncates the file.                             *)
EvOpenMetrics ==
    /\ rpc = "ev_metrics"
    /\ \/ /\ metricsFile' = [metricsFile EXCEPT ![rtype] = TruncatedMetrics]
          /\ rpc' = "ev_dump"
          /\ UNCHANGED <<rargs, routcome>>
       \/ /\ RRaise("evaluate")
          /\ UNCHANGED metricsFile
    /\ UNCHANGED <<mem, modelFile, impFile, history, clock, ncalls, frame,
                   outcome, pre, rpreds, rres>>

(* The keys of the metrics dict of lines 767-774.                          *)
MetricsKeys == {"rmse", "mae", "r2", "mape", "mean_residual", "std_residual"}

(* evaluate_model lines 778-780: json.dump(metrics, f).                    *)
EvDumpMetrics ==
    /\ rpc = "ev_dump"
    /\ \/ /\ \E v \in RmseValues :
                metricsFile' = [metricsFile EXCEPT ![rtype] =
                    [state |-> "written", keys |-> MetricsKeys, rmse |-> v]]
          /\ RReturn("metrics")
       \/ /\ RRaise("json.dump")
          /\ UNCHANGED metricsFile
    /\ UNCHANGED <<mem, modelFile, impFile, history, clock, ncalls, frame,
                   outcome, pre, rpreds, rres>>

(* get_feature_importance lines 792-802, called at line 819: importances   *)
(* that are not resident are loaded from their file if it exists.          *)
GetFeatureImportance ==
    /\ rpc = "ex_importance"
    /\ CASE feature_importances[rtype] # NoArt \/ impFile[rtype] = NoArt ->
              /\ rpc' = "ex_explain"
              /\ UNCHANGED <<feature_importances, rargs, routcome>>
         [] impFile[rtype] = Truncated ->
              /\ RRaise("JSONDecodeError")
              /\ UNCHANGED feature_importances
         [] OTHER ->
              /\ feature_importances' =
                     [feature_importances EXCEPT ![rtype] = impFile[rtype]]
              /\ rpc' = "ex_explain"
              /\ UNCHANGED <<rargs, routcome>>
    /\ UNCHANGED <<models, preprocessors, disk, history, clock, ncalls, frame,
                   outcome, pre, rpreds, rres>>

(* explain_valuation lines 822-858: the top features, the value drivers    *)
(* and the explanation; the gains are those the importance map of the type *)
(* holds (none when get_feature_importance returned {}).                   *)
Explain ==
    /\ rpc = "ex_explain"
    /\ \E g \in IF feature_importances[rtype] = NoArt THEN {<<>>} ELSE GainMaps :
          rres' = Explanation(rres, g, rrec)
    /\ RReturn("explanation")
    /\ UNCHANGED <<mem, disk, history, clock, ncalls, frame, outcome, pre, rpreds>>

(* __init__ (lines 38-59): a new process constructs a HomeValuationModel   *)
(* over the same model directory; the registries start empty.              *)
Restart ==
    /\ pc = "idle"
    /\ rpc = "idle"
    /\ mem # <<[T \in PropertyTypes |-> NoArt], [T \in PropertyTypes |-> NoPrep],
               [T \in PropertyTypes |-> NoArt]>>
    /\ models' = [T \in PropertyTypes |-> NoArt]
    /\ preprocessors' = [T \in PropertyTypes |-> NoPrep]
    /\ feature_importances' = [T \in PropertyTypes |-> NoArt]
    /\ outcome' = NoOutcome
    /\ routcome' = NoROutcome
    /\ rpreds' = <<>>
    /\ rres' = NoRes
    /\ results' = NoResults
    /\ UNCHANGED <<disk, history, clock, ncalls, op, pc, tbl, pdata, ptype,
                   idx, started, rpc, rargs>>
    /\ pre' = Snapshot'
---------------------------------------------------------------------------
(* Inputs.                                                                 *)

Rows(zero, one) ==
    [T \in PropertyTypes |-> IF T \in zero THEN 0 ELSE IF T \in one THEN 1 ELSE 5]

TrainColumns ==
    { {"square_feet", "property_type", "sale_price"},
      {"square_feet", "property_type"},
      {"square_feet", "sale_price"},
      {"square_feet", "list_price", "property_type", "sale_price"} }

TrainRows ==
    { Rows({}, {}), Rows({"multi_family"}, {}), Rows({"condo"}, {}),
      Rows(PropertyTypes, {}), Rows({}, {"single_family"}),
      Rows(PropertyTypes \ {"single_family"}, {}) }

TrainTables == {[cols |-> c, rows |-> r] : c \in TrainColumns, r \in TrainRows}

Records ==
    { {"square_feet"},
      {"square_feet", "property_type"},
      {"square_feet", "list_price", "property_type"},
      {"square_feet", "property_type", "sale_price"} }

Schedules == {"daily", "weekly", "monthly", "quarterly", "market_change", "yearly"}

(* n rows of type K: the data handed to the predictor.                     *)
RowsOf(K, n) == [T \in PropertyTypes |-> IF T = K THEN n ELSE 0]

---------------------------------------------------------------------------
(* The sequential specification: one caller at a time.                     *)

Init ==
    /\ models = [T \in PropertyTypes |-> NoArt]
    /\ preprocessors = [T \in PropertyTypes |-> NoPrep]
    /\ feature_importances = [T \in PropertyTypes |-> NoArt]
    /\ modelFile = [T \in PropertyTypes |-> NoArt]
    /\ impFile = [T \in PropertyTypes |-> NoArt]
    /\ metricsFile = [T \in PropertyTypes |-> NoMetrics]
    /\ history = NoHistory
    /\ clock = 0
    /\ ncalls = 0
    /\ op = "none"
    /\ pc = "idle"
    /\ tbl = NoTable
    /\ pdata = NoTable
    /\ ptype = "none"
    /\ idx = 0
    /\ results = NoResults
    /\ started = 0
    /\ outcome = NoOutcome
    /\ pre = Snapshot
    /\ rpc = "idle"
    /\ rtype = "none"
    /\ rrec = {}
    /\ routcome = NoROutcome
    /\ rrows = NoTable.rows
    /\ rcall = "none"
    /\ rconf = 0
    /\ rpreds = <<>>
    /\ rres = NoRes
    /\ fx = NoCall

TrainTypes == {"single_family", "condo"}

CallTrainModel == rpc = "idle" /\ \E t \in TrainTables, T \in TrainTypes : StartTrainModel(t, T)

CallPredict ==
    /\ pc = "idle"
    /\ \E T \in PropertyTypes, rec \in Records, K \in TrainTypes :
          StartPredict(T, rec, RowsOf(K, 1))

Next ==
    \/ CallTrainModel
    \/ CallPredict
    \/ TMFilter
    \/ TMEngineer
    \/ TMPrepare
    \/ TMFit
    \/ TMSplit
    \/ TMBoost
    \/ TMSave
    \/ TMSetModel
    \/ TMImportance
    \/ TMOpenImportance
    \/ TMDumpImportance
    \/ TMEvaluate
    \/ LoadModel
    \/ LoadImportance
    \/ PredictPrepare
    \/ PredictInfer
    \/ Restart

Spec == Init /\ [][Next]_vars

---------------------------------------------------------------------------
(* train_all_models over tables that lack rows of some types.              *)

AllTables ==
    {[cols |-> c, rows |-> r] :
        c \in { {"square_feet", "property_type", "sale_price"},
                {"square_feet", "sale_price"} },
        r \in { Rows({}, {}), Rows({"multi_family"}, {}), Rows({"condo"}, {}),
                Rows(PropertyTypes, {}) }}

CallTrainAll == rpc = "idle" /\ \E t \in AllTables : StartTrainAll(t)

NextAll ==
    \/ CallTrainAll
    \/ TMFilter
    \/ TMEngineer
    \/ TMPrepare
    \/ TMFit
    \/ TMSplit
    \/ TMBoost
    \/ TMSave
    \/ TMSetModel
    \/ TMImportance
    \/ TMOpenImportance
    \/ TMDumpImportance
    \/ TMEvaluate
    \/ TALoop
    \/ TAReturn
    \/ Restart

SpecAll == Init /\ [][NextAll]_vars

---------------------------------------------------------------------------
(* The retraining scheduler: the model store holds a last_training.json    *)
(* of some age (or none) when the process starts.                          *)

InitDates == {-89, -35, -29, -10, -6, 0, 1}

InitSched ==
    /\ models = [T \in PropertyTypes |-> NoArt]
    /\ preprocessors = [T \in PropertyTypes |-> NoPrep]
    /\ feature_importances = [T \in PropertyTypes |-> NoArt]
    /\ modelFile = [T \in PropertyTypes |-> NoArt]
    /\ impFile = [T \in PropertyTypes |-> NoArt]
    /\ metricsFile = [T \in PropertyTypes |-> NoMetrics]
    /\ \/ history = NoHistory
       \/ \E d \in InitDates :
              history = [date |-> d, property_types |-> [T \in PropertyTypes |-> 0],
                         state |-> "written", at |-> StrpDate(d),
                         policy |-> "none"]
    /\ clock = 0
    /\ ncalls = 0
    /\ op = "none"
    /\ pc = "idle"
    /\ tbl = NoTable
    /\ pdata = NoTable
    /\ ptype = "none"
    /\ idx = 0
    /\ results = NoResults
    /\ started = 0
    /\ outcome = NoOutcome
    /\ pre = Snapshot
    /\ rpc = "idle"
    /\ rtype = "none"
    /\ rrec = {}
    /\ routcome = NoROutcome
    /\ rrows = NoTable.rows
    /\ rcall = "none"
    /\ rconf = 0
    /\ rpreds = <<>>
    /\ rres = NoRes
    /\ fx = NoCall

SchedTables ==
    {[cols |-> {"square_feet", "property_type", "sale_price"}, rows |-> r] :
        r \in { Rows({}, {}), Rows({"multi_family"}, {}), Rows(PropertyTypes, {}) }}

CallRetrain == \E t \in SchedTables, schedule \in Schedules : StartRetrain(t, schedule)

NextSched ==
    \/ CallRetrain
    \/ Tick
    \/ TMFilter
    \/ TMEngineer
    \/ TMPrepare
    \/ TMFit
    \/ TMSplit
    \/ TMBoost
    \/ TMSave
    \/ TMSetModel
    \/ TMImportance
    \/ TMOpenImportance
    \/ TMDumpImportance
    \/ TMEvaluate
    \/ TALoop
    \/ TAReturn
    \/ RTOpen
    \/ RTDump

SpecSched == InitSched /\ [][NextSched]_vars

---------------------------------------------------------------------------
(* A trainer and a predictor working at the same time, on the same         *)
(* property type or on two different ones.                                 *)

ConcTables == {[cols |-> {"square_feet", "list_price", "property_type", "sale_price"},
                rows |-> Rows({}, {})]}

ConcTrain == \E t \in ConcTables, T \in TrainTypes : StartTrainModel(t, T)

ConcPredict ==
    \E T \in TrainTypes :
       StartPredict(T, {"square_feet", "list_price", "property_type"}, RowsOf(T, 1))

NextConc ==
    \/ ConcTrain
    \/ ConcPredict
    \/ TMFilter
    \/ TMEngineer
    \/ TMPrepare
    \/ TMFit
    \/ TMSplit
    \/ TMBoost
    \/ TMSave
    \/ TMSetModel
    \/ TMImportance
    \/ TMOpenImportance
    \/ TMDumpImportance
    \/ TMEvaluate
    \/ LoadModel
    \/ LoadImportance
    \/ PredictPrepare
    \/ PredictInfer
    \/ Restart

SpecConc == Init /\ [][NextConc]_vars

---------------------------------------------------------------------------
(* Valuation with intervals and explanations for one property type: the    *)
(* model store may already hold a metrics file that records val_rmse, the  *)
(* key predict_with_confidence reads.                                      *)

InitValuation ==
    /\ models = [T \in PropertyTypes |-> NoArt]
    /\ preprocessors = [T \in PropertyTypes |-> NoPrep]
    /\ feature_importances = [T \in PropertyTypes |-> NoArt]
    /\ modelFile = [T \in PropertyTypes |-> NoArt]
    /\ impFile = [T \in PropertyTypes |-> NoArt]
    /\ \E m \in {NoMetrics, [state |-> "written", keys |-> {"val_rmse"}, rmse |-> 50]} :
          metricsFile = [T \in PropertyTypes |->
                            IF T = "single_family" THEN m ELSE NoMetrics]
    /\ history = NoHistory
    /\ clock = 0
    /\ ncalls = 0
    /\ op = "none"
    /\ pc = "idle"
    /\ tbl = NoTable
    /\ pdata = NoTable
    /\ ptype = "none"
    /\ idx = 0
    /\ results = NoResults
    /\ started = 0
    /\ outcome = NoOutcome
    /\ pre = Snapshot
    /\ rpc = "idle"
    /\ rtype = "none"
    /\ rrec = {}
    /\ routcome = NoROutcome
    /\ rrows = NoTable.rows
    /\ rcall = "none"
    /\ rconf = 0
    /\ rpreds = <<>>
    /\ rres = NoRes
    /\ fx = NoCall

ValuationRecord == {"square_feet", "list_price", "property_type"}

EvalTables ==
    { [cols |-> {"square_feet", "list_price", "property_type", "sale_price"},
       rows |-> Rows({}, {})],
      [cols |-> {"square_feet", "list_price", "property_type", "sale_price"},
       rows |-> Rows({"single_family"}, {})],
      [cols |-> {"square_feet", "list_price", "property_type"},
       rows |-> Rows({}, {})] }

ValuationTrain ==
    rpc = "idle" /\ \E t \in ConcTables : StartTrainModel(t, "single_family")

CallPredictWithConfidence ==
    /\ pc = "idle"
    /\ \E n \in 1..MaxBatch, cl \in ConfLevels :
          StartPredictWithConfidence("single_family", ValuationRecord,
                                     RowsOf("single_family", n), cl)

CallExplain ==
    /\ pc = "idle"
    /\ StartExplain("single_family", ValuationRecord, RowsOf("single_family", 1))

CallEvaluate ==
    pc = "idle" /\ \E t \in EvalTables : StartEvaluate(t, "single_family")

NextValuation ==
    \/ ValuationTrain
    \/ CallPredictWithConfidence
    \/ CallExplain
    \/ CallEvaluate
    \/ TMFilter
    \/ TMEngineer
    \/ TMPrepare
    \/ TMFit
    \/ TMSplit
    \/ TMBoost
    \/ TMSave
    \/ TMSetModel
    \/ TMImportance
    \/ TMOpenImportance
    \/ TMDumpImportance
    \/ TMEvaluate
    \/ LoadModel
    \/ LoadImportance
    \/ EvFilter
    \/ PredictPrepare
    \/ PredictInfer
    \/ ComputeIntervals
    \/ EvOpenMetrics
    \/ EvDumpMetrics
    \/ GetFeatureImportance
    \/ Explain
    \/ Restart

SpecValuation == InitValuation /\ [][NextValuation]_vars

---------------------------------------------------------------------------
(* engineer_features, the preprocessor and the parameter set-up of         *)
(* train_model, each called on its own.                                    *)

MaxCategory == 2

(* The input columns engineer_features tests for (lines 179-293).          *)
OptionalColumns ==
    {"square_feet", "sale_price", "list_price", "year_built", "renovation_year",
     "bedrooms", "bathrooms", "lot_size", "sale_date", "previous_sale_date",
     "previous_sale_price", "latitude", "longitude", "school_rating",
     "crime_score", "walkability_score", "mortgage_rate_30yr",
     "unemployment_rate"}

(* The input columns that some line divides by.                            *)
DenominatorColumns == {"square_feet", "bathrooms", "bedrooms", "previous_sale_price"}

(* The columns that only the location, neighbourhood and economy rules    *)
(* (lines 237-283) read; the other rules share the remaining columns.      *)
IndependentColumns ==
    {"latitude", "longitude", "school_rating", "crime_score",
     "walkability_score", "mortgage_rate_30yr", "unemployment_rate"}

(* A table handed to engineer_features: its columns, and those of its      *)
(* denominator columns that hold a 0 in some row.  The tables take every   *)
(* subset of the shared columns with the independent ones all present or   *)
(* all absent, and every subset of the independent ones alone.             *)
EngineerTables ==
    {t \in [cols : SUBSET OptionalColumns, zeros : SUBSET DenominatorColumns] :
        /\ t.zeros \subseteq t.cols
        /\ \/ t.cols \cap IndependentColumns \in {{}, IndependentColumns}
           \/ t.cols \subseteq IndependentColumns}

(* prepare_data lines 119-120: int64/float64 columns are numeric, object   *)
(* and category columns categorical.                                       *)
NumericColumns == {"square_feet"}

CategoricalColumns == {"zip_code", "property_type"}

TransformColumns == NumericColumns \cup CategoricalColumns

Range(s) == {s[i] : i \in DOMAIN s}

IsNumeric(c) == c \in NumericColumns

IsCategorical(c) == c \in CategoricalColumns

(* Lines 119, 123-125: the numeric columns, in the order of df.columns.    *)
numeric_cols(order) == SelectSeq(order, IsNumeric)

(* Line 120: the categorical columns, in the order of df.columns.          *)
categorical_cols(order) == SelectSeq(order, IsCategorical)

(* OneHotEncoder.fit keeps the categories of a column sorted.              *)
RECURSIVE SortedSeq(_)
SortedSeq(S) ==
    IF S = {} THEN <<>>
    ELSE LET m == CHOOSE x \in S : \A y \in S : x <= y
         IN <<m>> \o SortedSeq(S \ {m})

(* Lines 130-142 and 150: the ColumnTransformer after fit: its column      *)
(* lists and, per categorical column, the categories seen in the table.    *)
Fit(table) ==
    [num |-> numeric_cols(table.order),
     cat |-> categorical_cols(table.order),
     categories |-> [c \in CategoricalColumns |-> SortedSeq(table.vocab[c])]]

(* StandardScaler: one output column per fitted numeric column (the scaled *)
(* value itself is not modelled: v is 0).                                  *)
Scale(num) == [k \in 1..Len(num) |-> [col |-> num[k], cat |-> 0, v |-> 0]]

(* An encoder that gives a value it never saw a column of its own.         *)
OneHotGrowing(cats, c, v) ==
    [k \in 1..Len(cats) |-> [col |-> c, cat |-> cats[k],
                             v |-> IF v = cats[k] THEN 1 ELSE 0]]
    \o (IF v \in Range(cats) THEN <<>> ELSE <<[col |-> c, cat |-> v, v |-> 1]>>)

(* OneHotEncoder(handle_unknown='ignore') (line 135): one indicator per    *)
(* fitted category, in the fitted order; a value that is none of them      *)
(* leaves every indicator 0.                                               *)
OneHot(cats, c, v) ==
    [k \in 1..Len(cats) |-> [col |-> c, cat |-> cats[k],
                             v |-> IF v = cats[k] THEN 1 ELSE 0]]

RECURSIVE Encode(_, _, _)
Encode(cat, categories, val) ==
    IF cat = <<>> THEN <<>>
    ELSE OneHot(categories[Head(cat)], Head(cat), val[Head(cat)])
         \o Encode(Tail(cat), categories, val)

(* ColumnTransformer.transform (line 153): the fitted columns are selected *)
(* by name, a record that lacks one raises ValueError; the output is the   *)
(* 'num' block followed by the 'cat' block.                                *)
Transform(p, rec) ==
    IF ~((Range(p.num) \cup Range(p.cat)) \subseteq Range(rec.order))
    THEN [raised |-> TRUE, row |-> <<>>]
    ELSE [raised |-> FALSE,
          row |-> Scale(p.num) \o Encode(p.cat, p.categories, rec.val)]

(* Line 150: fit_transform, seen on the first row of the training table.   *)
FitTransform(table) ==
    Transform(Fit(table),
              [order |-> table.order,
               val |-> [c \in CategoricalColumns |->
                           IF table.vocab[c] = {} THEN 0
                           ELSE SortedSeq(table.vocab[c])[1]]])

(* The orders in which a table can hold some of the columns.               *)
ColumnOrders ==
    {o \in UNION {[1..n -> TransformColumns] :
                     n \in 0..Cardinality(TransformColumns)} :
        \A i, j \in DOMAIN o : o[i] = o[j] => i = j}

(* Training tables: a column order and, per categorical column present,    *)
(* the values it holds (categories are numbered 1..MaxCategory).           *)
FitTables ==
    {t \in [order : ColumnOrders \ {<<>>},
            vocab : [CategoricalColumns -> SUBSET (1..MaxCategory)]] :
        \A c \in CategoricalColumns : t.vocab[c] # {} <=> c \in Range(t.order)}

(* Records to transform: MaxCategory + 1 is a value no table holds.        *)
TransformRecords ==
    {r \in [order : ColumnOrders,
            val : [CategoricalColumns -> 0..(MaxCategory + 1)]] :
        \A c \in CategoricalColumns : r.val[c] # 0 <=> c \in Range(r.order)}

(* _tune_hyperparameters lines 474-482: the grid (learning_rate in         *)
(* hundredths, subsample, colsample_bytree and gamma in tenths).           *)
param_grid ==
    [max_depth : {3, 5, 7}, learning_rate : {1, 10, 20},
     n_estimators : {100, 200, 300}, subsample : {6, 8, 10},
     colsample_bytree : {6, 8, 10}, min_child_weight : {1, 3, 5},
     gamma : {0, 1, 2}]

(* Lines 511-521: what _tune_hyperparameters returns for the best_params_  *)
(* of the grid search.                                                     *)
tune_hyperparameters(best_params) ==
    [max_depth |-> best_params.max_depth,
     eta |-> best_params.learning_rate,
     subsample |-> best_params.subsample,
     colsample_bytree |-> best_params.colsample_bytree,
     min_child_weight |-> best_params.min_child_weight,
     gamma |-> best_params.gamma]

(* train_model lines 362-372: the base parameters, in the same units.      *)
BaseParams ==
    [eta |-> 10, max_depth |-> 6, subsample |-> 8, colsample_bytree |-> 8,
     min_child_weight |-> 1, gamma |-> 0]

(* Line 384. *)
num_round == 1000

(* dict.update *)
Update(params, more) ==
    [k \in DOMAIN params \cup DOMAIN more |->
        IF k \in DOMAIN more THEN more[k] ELSE params[k]]

(* Lines 362-397: the parameters and the number of boosting rounds that    *)
(* xgb.train is called with.                                               *)
TrainParams(tune_hyperparams, best_params) ==
    [params |-> IF tune_hyperparams
                THEN Update(BaseParams, tune_hyperparameters(best_params))
                ELSE BaseParams,
     num_boost_round |-> num_round]

InitFunctions ==
    /\ models = [T \in PropertyTypes |-> NoArt]
    /\ preprocessors = [T \in PropertyTypes |-> NoPrep]
    /\ feature_importances = [T \in PropertyTypes |-> NoArt]
    /\ modelFile = [T \in PropertyTypes |-> NoArt]
    /\ impFile = [T \in PropertyTypes |-> NoArt]
    /\ metricsFile = [T \in PropertyTypes |-> NoMetrics]
    /\ history = NoHistory
    /\ clock = 0
    /\ ncalls = 0
    /\ op = "none"
    /\ pc = "idle"
    /\ tbl = NoTable
    /\ pdata = NoTable
    /\ ptype = "none"
    /\ idx = 0
    /\ results = NoResults
    /\ started = 0
    /\ outcome = NoOutcome
    /\ pre = Snapshot
    /\ rpc = "idle"
    /\ rtype = "none"
    /\ rrec = {}
    /\ routcome = NoROutcome
    /\ rrows = NoTable.rows
    /\ rcall = "none"
    /\ rconf = 0
    /\ rpreds = <<>>
    /\ rres = NoRes
    /\ \/ \E t \in EngineerTables :
             fx = [call |-> "engineer_features", done |-> FALSE, data |-> t]
       \/ \E t \in FitTables, r \in TransformRecords :
             fx = [call |-> "transform", done |-> FALSE, table |-> t, data |-> r]
       \/ \E tune \in BOOLEAN, best \in param_grid :
             fx = [call |-> "train_model", done |-> FALSE,
                   tune_hyperparams |-> tune, best_params |-> best]

(* engineer_features(data) *)
CallEngineerFeatures ==
    /\ fx.call = "engineer_features"
    /\ ~fx.done
    /\ fx' = [call |-> fx.call, done |-> TRUE, data |-> fx.data,
              raised |-> FALSE,
              out |-> EngineeredColumns(fx.data.cols, fx.data.zeros),
              divided_by_zero |-> ZeroDivisions(fx.data.cols, fx.data.zeros)]
    /\ UNCHANGED <<mem, disk, history, clock, ncalls, frame, outcome, pre, rpc,
                   rtype, rrec, routcome, rrows, rcall, rconf, rpreds, rres>>

(* prepare_data(table, T, train=True), then prepare_data(data, T) on the   *)
(* stored preprocessor.                                                    *)
CallTransform ==
    /\ fx.call = "transform"
    /\ ~fx.done
    /\ fx' = [call |-> fx.call, done |-> TRUE, table |-> fx.table,
              data |-> fx.data,
              fitted |-> FitTransform(fx.table),
              out |-> Transform(Fit(fx.table), fx.data)]
    /\ UNCHANGED <<mem, disk, history, clock, ncalls, frame, outcome, pre, rpc,
                   rtype, rrec, routcome, rrows, rcall, rconf, rpreds, rres>>

(* train_model lines 361-397, with the result of the grid search given.    *)
CallTrainParams ==
    /\ fx.call = "train_model"
    /\ ~fx.done
    /\ fx' = [call |-> fx.call, done |-> TRUE,
              tune_hyperparams |-> fx.tune_hyperparams,
              best_params |-> fx.best_params,
              out |-> TrainParams(fx.tune_hyperparams, fx.best_params)]
    /\ UNCHANGED <<mem, disk, history, clock, ncalls, frame, outcome, pre, rpc,
                   rtype, rrec, routcome, rrows, rcall, rconf, rpreds, rres>>

NextFunctions ==
    \/ CallEngineerFeatures
    \/ CallTransform
    \/ CallTrainParams

SpecFunctions == InitFunctions /\ [][NextFunctions]_vars

---------------------------------------------------------------------------
(* Properties.                                                             *)

RawColumns == {"sale_price", "list_price", "square_feet", "property_type"}

(* The artifacts of type T are what the snapshot snap recorded.            *)
SameAsBefore(T, snap) ==
    /\ models[T] = snap[1][T]
    /\ preprocessors[T] = snap[2][T]
    /\ feature_importances[T] = snap[3][T]
    /\ modelFile[T] = snap[4][T]
    /\ impFile[T] = snap[5][T]

(* The artifacts of type T are those of training call k.                   *)
TrainedBy(T, k) ==
    /\ models[T] = Art(k, T)
    /\ preprocessors[T].call = k
    /\ preprocessors[T].ptype = T
    /\ preprocessors[T].fitted
    /\ feature_importances[T] = Art(k, T)
    /\ modelFile[T] = Art(k, T)
    /\ impFile[T] = Art(k, T)

(* C1: when train_model for type T ends with an exception, the model file, *)
(* the feature-importance file and the in-memory model, preprocessor and   *)
(* feature importances of T are what they were when the call began (stated *)
(* for the calls that begin with a model of T resident and persisted: the  *)
(* previous good artifact).                                                *)
C1_FailedTrainLeavesArtifacts ==
    ( /\ outcome.op = "train_model"
      /\ outcome.kind = "raised"
      /\ pre[1][outcome.arg] # NoArt
      /\ pre[4][outcome.arg] # NoArt )
        => SameAsBefore(outcome.arg, pre)

(* C2: a predict/load_model for type T that runs while train_model for T   *)
(* runs never continues with a model of one training run together with     *)
(* feature importances of another run or of none.                          *)
C2_ReaderSeesWholeArtifact ==
    rpc = "pr_prepare" => feature_importances[rtype].call = models[rtype].call

(* C3: predict for a type whose model is not resident goes to load_model;  *)
(* when the type has no model file the call ends with "Model not found"    *)
(* and loads nothing, whatever the other types hold; a load takes the      *)
(* type's own file, and inference runs with a model trained for the type.  *)
C3_PredictWithoutModelFails ==
    [][ /\ (rpc = "idle" /\ rpc' # "idle" /\ models[rtype'] = NoArt)
              => rpc' = "ld_model"
        /\ (rpc = "ld_model" /\ modelFile[rtype] = NoArt)
              => /\ routcome'.kind = "raised"
                 /\ routcome'.val = "ValueError: Model not found"
                 /\ rpc' = "idle"
                 /\ UNCHANGED <<mem, disk>>
        /\ (rpc = "ld_model" /\ modelFile[rtype] # NoArt)
              => models'[rtype] = modelFile[rtype]
        /\ (routcome'.kind = "returned") => routcome'.model.ptype = rtype'
      ]_vars

(* Scenario B: predict for condo fails with "Model not found" while a      *)
(* single_family model is resident and persisted.                          *)
C3_Witness ==
    /\ routcome.val = "ValueError: Model not found"
    /\ rtype = "condo"
    /\ models["single_family"] # NoArt
    /\ modelFile["single_family"] # NoArt

(* The number of days each day-based policy asks for.                      *)
PolicyDays(schedule) ==
    CASE schedule = "daily"     -> 1
      [] schedule = "weekly"    -> 7
      [] schedule = "monthly"   -> 30
      [] schedule = "quarterly" -> 90

C5_NoOpIsSideEffectFree ==
    [][ (pc = "idle" /\ outcome' # outcome
         /\ outcome'.val = "Retraining not needed")
        => /\ UNCHANGED <<mem, disk, history, ncalls>>
           /\ pc' = "idle"
           /\ op' = "none" ]_vars

(* A no-op call over a store that holds a trained model and a record.      *)
C5_Witness ==
    /\ outcome.val = "Retraining not needed"
    /\ modelFile["single_family"] # NoArt
    /\ models["single_family"] # NoArt
    /\ history.state = "written"

(* C6: a new record is written to last_training.json only in a call in     *)
(* which the training of some property type succeeded.                     *)
C6_HistoryOnlyOnSuccess ==
    [][ (history' # history /\ history'.state = "written")
        => \E T \in PropertyTypes : results[T] = "ok" ]_vars

(* C7: last_training.json changes only after all four property types have  *)
(* been handled, and it changes in one step to the record holding the new  *)
(* date and the metrics of each property type.                             *)
C7_HistoryReplacedAtomically ==
    [][ history' # history
        => /\ \A T \in PropertyTypes : results[T] # "none"
           /\ history'.state = "written"
           /\ history'.date = StrfDate(started)
           /\ DOMAIN history'.property_types = PropertyTypes ]_vars

(* C8: in train_all_models a type without rows gets the error result and   *)
(* the loop goes on, no artifact touched; when the call returns, every     *)
(* type without rows has its artifacts as they were before the call and    *)
(* every other type has been trained by this call.                         *)
C8_OnlyEmptyTypeFails ==
    [][ /\ ( /\ pc = "ta_loop"
             /\ idx <= Len(property_types)
             /\ "property_type" \in tbl.cols
             /\ tbl.rows[property_types[idx]] = 0 )
           => /\ UNCHANGED <<mem, disk>>
              /\ pc' = "ta_loop"
              /\ idx' = idx + 1
              /\ results'[property_types[idx]] = "error"
        /\ (pc = "ta_loop" /\ idx > Len(property_types))
           => \A T \in PropertyTypes :
                 IF "property_type" \in tbl.cols /\ tbl.rows[T] = 0
                 THEN results[T] = "error" /\ SameAsBefore(T, pre)
                 ELSE results[T] = "ok" /\ TrainedBy(T, ncalls)
      ]_vars

(* Scenario D: multi_family has no rows, the three other types are trained *)
(* and the multi_family artifact of an earlier call is still in place.     *)
C8_Witness ==
    /\ outcome.op = "train_all_models"
    /\ outcome.kind = "returned"
    /\ results["multi_family"] = "error"
    /\ \A T \in PropertyTypes \ {"multi_family"} :
          results[T] = "ok" /\ TrainedBy(T, ncalls)
    /\ modelFile["multi_family"] # NoArt
    /\ modelFile["multi_family"].call < ncalls

(* C9: train_model for a type that has no row in a table with a            *)
(* property_type column ends with an exception, nothing fitted or written. *)
C9_EmptyTypeRaises ==
    [][ ( /\ op = "train_model"
          /\ pc = "tm_filter"
          /\ "property_type" \in pdata.cols
          /\ pdata.rows[ptype] = 0 )
        => (outcome'.kind = "raised" /\ UNCHANGED <<mem, disk>>) ]_vars

(* C10: train_model on a table without sale_price raises the label         *)
(* ValueError with no preprocessor stored and no file written; predict on  *)
(* a record that has the training table's input columns and no sale_price  *)
(* gets through the transform.                                             *)
C10_LabelOnlyForTraining ==
    [][ /\ (pc = "tm_prepare" /\ "sale_price" \notin pdata.cols)
           => /\ outcome'.kind = "raised"
              /\ outcome'.val = "ValueError: sale_price"
              /\ UNCHANGED <<mem, disk>>
        /\ ( /\ rpc = "pr_prepare"
             /\ "sale_price" \notin rrec
             /\ preprocessors[rtype].fitted
             /\ rrec = preprocessors[rtype].cols \cap RawColumns )
           => rpc' = "pr_infer"
      ]_vars

(* C11: train_model on rows too few for the 80/20 split ends with          *)
(* InsufficientDataError, and the stored preprocessor and every artifact   *)
(* of the type are what they were when the call began.                     *)
C11_TooFewRowsFailsEarly ==
    [][ (op = "train_model" /\ pc = "tm_split" /\ NumRows(pdata) < 2)
        => /\ outcome'.kind = "raised"
           /\ outcome'.val = "InsufficientDataError"
           /\ SameAsBefore(ptype, pre)' ]_vars

(* C12: prepare_data(train=False) for a type without a stored preprocessor *)
(* ends with ArtifactNotFoundError, never with an untyped lookup error,    *)
(* and stores or fits no preprocessor.                                     *)
C12_MissingPreprocessorIsTyped ==
    [][ (rpc = "pr_prepare" /\ preprocessors[rtype] = NoPrep)
        => /\ routcome'.kind = "raised"
           /\ routcome'.val = "ArtifactNotFoundError"
           /\ routcome'.val # "KeyError"
           /\ UNCHANGED preprocessors ]_vars

(* What the files keyed by type T hold: train_model writes the booster     *)
(* (line 401) and the importance map (lines 411-413), evaluate_model the   *)
(* metrics (lines 776-778); no file holds a preprocessor, the              *)
(* hyperparameters or a per-type timestamp.                                *)
PersistedParts(T) ==
    (IF modelFile[T] # NoArt /\ modelFile[T].ptype = T THEN {"booster"} ELSE {})
    \cup (IF impFile[T] \notin {NoArt, Truncated} /\ impFile[T].ptype = T
          THEN {"feature_importances"} ELSE {})
    \cup (IF metricsFile[T].state = "written" THEN {"metrics"} ELSE {})

(* C13: after a train_model call for T that returned its results, the      *)
(* files keyed by T hold the booster, the fitted preprocessor, the feature *)
(* importances, the evaluation metrics, the hyperparameters and the        *)
(* training timestamp.                                                     *)
C13_StoreHoldsEveryPart ==
    ( /\ outcome.op = "train_model"
      /\ outcome.kind = "returned"
      /\ outcome.val = "ok" )
        => {"booster", "preprocessor", "feature_importances", "metrics",
            "hyperparameters", "timestamp"} \subseteq PersistedParts(outcome.arg)

(* C15: the preprocessor and the booster of a property type only ever meet *)
(* rows of that type: train_model fits on rows of its type alone, and a    *)
(* predict that returns predictions has run the rows it was given through  *)
(* a preprocessor and a booster trained for the type of those rows.        *)
C15_ArtifactsMeetOwnTypeOnly ==
    /\ (pc = "tm_fit" /\ "property_type" \in pdata.cols)
          => \A U \in PropertyTypes \ {ptype} : pdata.rows[U] = 0
    /\ (routcome.kind = "returned" /\ routcome.val = "predictions")
          => \A U \in PropertyTypes :
                rrows[U] > 0 => /\ routcome.model.ptype = U
                                /\ routcome.prep.ptype = U

(* Some registry entry or file keyed by type U differs after the step.     *)
Touched(U) ==
    \/ models'[U] # models[U]
    \/ preprocessors'[U] # preprocessors[U]
    \/ feature_importances'[U] # feature_importances[U]
    \/ modelFile'[U] # modelFile[U]
    \/ impFile'[U] # impFile[U]
    \/ metricsFile'[U] # metricsFile[U]

(* C14: a step of train_model for T changes registry entries and files of  *)
(* T alone, and so does a step of predict for T, however the steps of a    *)
(* trainer and of a predictor working on other types are interleaved.      *)
C14_OtherTypesUntouched ==
    [][ (pc' # pc \/ rpc' # rpc)
        => \A U \in PropertyTypes :
              Touched(U) => \/ (pc' # pc /\ U = ptype)
                            \/ (rpc' # rpc /\ U = rtype) ]_vars

(* Scenario A: a trainer has just stored its condo booster while a         *)
(* predictor is inside load_model for single_family, whose booster and     *)
(* files come from an earlier call and are still in place.                 *)
C14_Witness ==
    /\ pc = "tm_importance"
    /\ ptype = "condo"
    /\ models["condo"] = Art(ncalls, "condo")
    /\ rpc = "ld_importance"
    /\ rtype = "single_family"
    /\ models["single_family"] = modelFile["single_family"]
    /\ modelFile["single_family"] = Art(1, "single_family")
    /\ impFile["single_family"] = Art(1, "single_family")

(* C16: in every result of predict_with_confidence, whatever the           *)
(* confidence_level, the prediction interval of each row contains its      *)
(* confidence interval: pi_lower <= ci_lower and pi_upper >= ci_upper      *)
(* (stated for the batches without a negative prediction).                 *)
C16_PredictionIntervalIsWider ==
    (rres.source # "none" /\ \A i \in 1..Len(rpreds) : rpreds[i] >= 0)
        => \A i \in 1..Len(rpreds) :
              /\ rres.pi_lower[i] <= rres.ci_lower[i]
              /\ rres.pi_upper[i] >= rres.ci_upper[i]

(* The confidence interval of every row contains the row's prediction.     *)
CIContainsEstimate ==
    \A i \in 1..Len(rpreds) :
       /\ rres.ci_lower[i] <= rpreds[i] * rres.scale
       /\ rpreds[i] * rres.scale <= rres.ci_upper[i]

(* C17 as stated: whatever the booster returned and wherever the RMSE came *)
(* from, lower_bound <= prediction <= upper_bound for every row.           *)
C17_AnyOutput ==
    rres.source # "none" => CIContainsEstimate

(* C17: when no prediction of the batch is negative, lower_bound <=        *)
(* prediction <= upper_bound for every row, with the RMSE taken from the   *)
(* metrics file or from the fallback.                                      *)
C17_CIContainsEstimate ==
    (rres.source # "none" /\ \A i \in 1..Len(rpreds) : rpreds[i] >= 0)
        => CIContainsEstimate

(* A batch of 10 and 1000 with the recorded val_rmse of 50 at the 95%      *)
(* level: the lower bound of the first row is clamped to 0, that of the    *)
(* second row is not.                                                      *)
C17_Witness ==
    /\ rres.source = "val_rmse"
    /\ rconf = 95
    /\ rpreds = <<10, 1000>>
    /\ rres.ci_lower[1] = 0
    /\ rres.ci_lower[2] > 0
    /\ rres.ci_upper[1] > 10 * rres.scale

(* C18: in every result of predict_with_confidence ci_lower and pi_lower   *)
(* are at least 0, ci_upper is the prediction plus z(confidence_level)     *)
(* times the RMSE and pi_upper is the prediction plus 1.5 z(0.9) times the *)
(* RMSE, neither capped.                                                   *)
C18_LowerClampedUpperFree ==
    rres.source # "none"
        => \A i \in 1..Len(rpreds) :
              /\ rres.ci_lower[i] >= 0
              /\ rres.pi_lower[i] >= 0
              /\ rres.ci_upper[i] * 100 =
                    rpreds[i] * rres.scale * 100 + ZScore(rconf) * rres.rmse
              /\ rres.pi_upper[i] * 200 =
                    rpreds[i] * rres.scale * 200 + 3 * ZScore(90) * rres.rmse

(* A batch of 10 and 1000 with the fallback RMSE: both lower bounds of the *)
(* first row are clamped to 0 and its upper bounds lie above it.           *)
C18_Witness ==
    /\ rres.source = "fallback"
    /\ rpreds = <<10, 1000>>
    /\ rres.ci_lower[1] = 0
    /\ rres.pi_lower[1] = 0
    /\ rres.ci_upper[1] > 10 * rres.scale
    /\ rres.pi_upper[1] > rres.ci_upper[1]

(* C19: predict_with_confidence takes the RMSE recorded in the metrics     *)
(* file of the type whenever that file exists, and falls back to 10% of    *)
(* the mean prediction only when it does not.                              *)
C19_PersistedRmseIsUsed ==
    rres.source # "none"
        => IF metricsFile[rtype].state = "written"
           THEN /\ rres.source = "val_rmse"
                /\ rres.rmse = metricsFile[rtype].rmse * rres.scale
           ELSE /\ rres.source = "fallback"
                /\ rres.rmse * 10 * Len(rpreds) = SumSeq(rpreds) * rres.scale

(* C20: in an explanation the impact percentages (each driver's gain over  *)
(* the total gain, times 100) sum to at most 100, and the sum is the share *)
(* of the total gain that the top 10 features cover.                       *)
C20_ImpactIsTopShare ==
    rres.explained
        => /\ rres.drivers <= rres.total
           /\ rres.drivers = rres.top


(* The columns an output row stands for, position by position.             *)
Layout(row) == [k \in DOMAIN row |-> <<row[k].col, row[k].cat>>]

(* C21: a transform after a fit yields the columns of fit time, in the     *)
(* same number and order, whatever the column order of the record; a       *)
(* categorical value unseen at fit time raises nothing and leaves the      *)
(* width unchanged, with every indicator of its column 0.                  *)
C21_TransformKeepsLayout ==
    (fx.call = "transform" /\ fx.done) =>
        /\ ~fx.out.raised => Layout(fx.out.row) = Layout(fx.fitted.row)
        /\ Range(fx.table.order) \subseteq Range(fx.data.order) => ~fx.out.raised
        /\ \A c \in CategoricalColumns \cap Range(fx.table.order) :
              (~fx.out.raised /\ fx.data.val[c] \notin fx.table.vocab[c])
                 => \A k \in DOMAIN fx.out.row :
                       fx.out.row[k].col = c => fx.out.row[k].v = 0

(* A record with a zip_code no training row had, its columns in another    *)
(* order than the table's, transformed by a preprocessor fitted on two     *)
(* zip codes.                                                              *)
C21_Witness ==
    /\ fx.call = "transform"
    /\ fx.done
    /\ ~fx.out.raised
    /\ fx.table.order = <<"square_feet", "zip_code", "property_type">>
    /\ fx.data.order = <<"property_type", "zip_code", "square_feet">>
    /\ fx.table.vocab["zip_code"] = {1, 2}
    /\ fx.data.val["zip_code"] = MaxCategory + 1
    /\ Len(fx.out.row) = Len(fx.fitted.row)

(* The columns engineer_features can add.                                  *)
DerivedFeatures ==
    {"price_per_sqft", "property_age", "years_since_renovation", "total_rooms",
     "bed_bath_ratio", "living_area_ratio", "lot_to_house_ratio",
     "month_of_year", "quarter", "year", "day_of_week", "is_weekend",
     "is_summer", "is_winter", "days_since_last_sale",
     "price_change_since_last_sale", "price_change_pct", "distance_to_strip",
     "distance_to_airport", "distance_to_downtown", "neighborhood_quality",
     "affordability_index", "economic_health_index", "log_sale_price",
     "log_square_feet", "log_lot_size", "log_price_per_sqft"}

(* The source columns of derived feature f are all among cols.             *)
HasSources(f, cols) ==
    CASE f \in {"price_per_sqft", "log_price_per_sqft"} ->
            "square_feet" \in cols /\ {"sale_price", "list_price"} \cap cols # {}
      [] f = "property_age" -> "year_built" \in cols
      [] f = "years_since_renovation" -> "renovation_year" \in cols
      [] f \in {"total_rooms", "bed_bath_ratio"} ->
            {"bedrooms", "bathrooms"} \subseteq cols
      [] f = "living_area_ratio" -> {"square_feet", "bedrooms"} \subseteq cols
      [] f = "lot_to_house_ratio" -> {"lot_size", "square_feet"} \subseteq cols
      [] f \in {"month_of_year", "quarter", "year", "day_of_week", "is_weekend",
                "is_summer", "is_winter"} -> "sale_date" \in cols
      [] f = "days_since_last_sale" ->
            {"previous_sale_date", "previous_sale_price", "sale_date"} \subseteq cols
      [] f \in {"price_change_since_last_sale", "price_change_pct"} ->
            {"previous_sale_date", "previous_sale_price", "sale_price"} \subseteq cols
      [] f \in {"distance_to_strip", "distance_to_airport", "distance_to_downtown"} ->
            {"latitude", "longitude"} \subseteq cols
      [] f = "neighborhood_quality" ->
            {"school_rating", "crime_score", "walkability_score"} \subseteq cols
      [] f \in {"affordability_index", "economic_health_index"} ->
            {"mortgage_rate_30yr", "unemployment_rate"} \subseteq cols
      [] f = "log_sale_price" -> "sale_price" \in cols
      [] f = "log_square_feet" -> "square_feet" \in cols
      [] f = "log_lot_size" -> "lot_size" \in cols

(* The ratios the division guard covers: f is left out when the column it  *)
(* is divided by holds a 0 (and with price_per_sqft its logarithm).        *)
GuardSkips(f, zeros) ==
    \/ /\ f \in {"price_per_sqft", "bed_bath_ratio", "living_area_ratio",
                 "lot_to_house_ratio"}
       /\ Denominator(f) \in zeros
    \/ f = "log_price_per_sqft" /\ "square_feet" \in zeros

C24_NoDivisionByZero ==
    (fx.call = "engineer_features" /\ fx.done) =>
        /\ \A f \in DivisionFeatures \cap fx.out : Denominator(f) \notin fx.data.zeros
        /\ fx.divided_by_zero = {}

(* C25: with tuning, xgb.train gets the best value of each of the seven    *)
(* searched hyperparameters; without, exactly the base parameters.         *)
C25_BestParamsUsed ==
    (fx.call = "train_model" /\ fx.done) =>
        IF fx.tune_hyperparams
        THEN /\ fx.out.params.max_depth = fx.best_params.max_depth
             /\ fx.out.params.eta = fx.best_params.learning_rate
             /\ fx.out.num_boost_round = fx.best_params.n_estimators
             /\ fx.out.params.subsample = fx.best_params.subsample
             /\ fx.out.params.colsample_bytree = fx.best_params.colsample_bytree
             /\ fx.out.params.min_child_weight = fx.best_params.min_child_weight
             /\ fx.out.params.gamma = fx.best_params.gamma
        ELSE fx.out.params = BaseParams

(* The calls of the Predictor.                                             *)
PredictorCalls == {"predict", "predict_with_confidence", "explain_valuation"}

(* C22: no step of predict, predict_with_confidence or explain_valuation   *)
(* changes the stored preprocessor of any type, and a preprocessor is      *)
(* stored or fitted only by the preparation of a training table (a table   *)
(* with the label) for its own type.                                       *)
C22_PredictorLeavesPreprocessors ==
    [][ /\ (rpc' # rpc /\ rcall' \in PredictorCalls) => UNCHANGED preprocessors
        /\ \A T \in PropertyTypes :
              (preprocessors'[T] # preprocessors[T] /\ preprocessors'[T] # NoPrep)
                 => /\ pc \in {"tm_prepare", "tm_fit"}
                    /\ ptype = T
                    /\ "sale_price" \in pdata.cols
                    /\ rpc' = rpc ]_vars

(* A predictor call that went through prepare_data for a type whose model *)
(* is resident and found no preprocessor stored: it ended with the lookup  *)
(* error and stored none.                                                  *)
C22_Witness ==
    /\ rcall \in PredictorCalls
    /\ rpc = "idle"
    /\ routcome.kind = "raised"
    /\ routcome.val = "KeyError"
    /\ models[rtype] # NoArt
    /\ preprocessors[rtype] = NoPrep

(* C26: whenever a model of a type is resident, a preprocessor of that     *)
(* type is resident too.                                                   *)
C26_ModelImpliesPreprocessor ==
    \A T \in PropertyTypes : models[T] # NoArt => preprocessors[T] # NoPrep

(* C27: predict for a type with a fitted preprocessor, on a record that    *)
(* has the input columns of the training table and no sale_price, finds    *)
(* every fitted feature column in the engineered record.                   *)
C27_FittedColumnsPresent ==
    ( /\ rpc = "pr_prepare"
      /\ rcall = "predict"
      /\ preprocessors[rtype].fitted
      /\ "sale_price" \notin rrec
      /\ rrec = preprocessors[rtype].cols \cap RawColumns )
        => preprocessors[rtype].cols \subseteq engineer_features(rrec)

(* The policies that compare the age of the record with a number of days.  *)
DayPolicies == {"daily", "weekly", "monthly", "quarterly"}

(* C28: retrain_models under a day-based policy with no last_training.json *)
(* begins a retraining; the call does not raise.                           *)
C28_NoRecordTriggers ==
    [][ ( /\ pc = "idle"
          /\ history.state = "absent"
          /\ outcome' # outcome
          /\ outcome'.op = "retrain_models"
          /\ outcome'.arg \in DayPolicies )
        => outcome'.kind = "started" ]_vars

(* C29: a retraining under a day-based policy that begins after a          *)
(* retraining under the same policy wrote last_training.json begins at     *)
(* least the policy's number of days after that retraining began (the      *)
(* clock counts half days).                                                *)
C29_TriggeredRunsSpaced ==
    [][ ( /\ pc = "idle"
          /\ history.state = "written"
          /\ history.policy \in DayPolicies
          /\ outcome' # outcome
          /\ outcome'.op = "retrain_models"
          /\ outcome'.arg = history.policy
          /\ outcome'.kind = "started" )
        => clock - history.at >= 2 * PolicyDays(history.policy) ]_vars

(* C29 (amended): after a retraining under a day-based policy wrote       *)
(* last_training.json, a call under a day-based policy returns             *)
(* "Retraining not needed" while fewer than the policy's number of         *)
(* calendar days separate the day the retraining began from today, and a   *)
(* retraining that begins does so on a calendar day at least that many     *)
(* days after the day on which the recorded one began.                     *)
C29_TriggeredDatesSpaced ==
    [][ ( /\ pc = "idle"
          /\ history.state = "written"
          /\ history.policy \in DayPolicies
          /\ outcome' # outcome
          /\ outcome'.op = "retrain_models"
          /\ outcome'.arg \in DayPolicies )
        => LET days == clock \div 2 - history.at \div 2 IN
           /\ days < PolicyDays(outcome'.arg)
                 => /\ outcome'.val = "Retraining not needed"
                    /\ UNCHANGED <<mem, disk, history, ncalls>>
           /\ outcome'.kind = "started" => days >= PolicyDays(outcome'.arg) ]_vars

(* A daily retraining that began half a day after the daily retraining     *)
(* whose record it read, on the next calendar day.                         *)
C29_Witness ==
    /\ outcome.op = "retrain_models"
    /\ outcome.kind = "started"
    /\ outcome.arg = "daily"
    /\ history.state = "written"
    /\ history.policy = "daily"
    /\ started - history.at = 1
    /\ started \div 2 - history.at \div 2 = 1

(* C30: retrain_models with a schedule that is none of the five policies   *)
(* returns "Retraining not needed", raises nothing and changes no artifact *)
(* and not last_training.json.                                             *)
C30_UnknownScheduleIsNoOp ==
    [][ ( /\ pc = "idle"
          /\ outcome' # outcome
          /\ outcome'.op = "retrain_models"
          /\ outcome'.arg \notin DayPolicies \cup {"market_change"} )
        => /\ outcome'.kind = "returned"
           /\ outcome'.val = "Retraining not needed"
           /\ UNCHANGED <<mem, disk, history, ncalls>> ]_vars

====
